---- MODULE Spec2Model ----
(***************************************************************************)
(* A model of react-mutable-dom: the mutation lock of useRevertMutations,  *)
(* the revert pass (revertDOMMutation), the dispatcher of MutableRoot      *)
(* (handleAllMutations), the snapshot of the previous tree (RevertedTree)  *)
(* and the listener registry (MutableRegistry).                            *)
(***************************************************************************)
EXTENDS Integers, Sequences, FiniteSets, TLC

VARIABLES
    tree,           \* the live DOM: [kids, attr, text]
    preTree,        \* history: the tree before the batch now pending or in processing
    pending,        \* the MutationObserver's record queue (records not yet delivered)
    queue,          \* useRevertMutations: queue
    isObserving,    \* useRevertMutations: isObserving
    shouldRevert,   \* useRevertMutations: shouldRevert.current
    nodeRef,        \* useRevertMutations: nodeRef.current
    hasObserver,    \* typeof MutationObserver != "undefined"
    idToNode,       \* MutableRegistry.idToNode
    nodeToHandler,  \* MutableRegistry.nodeToHandler: its keys, in insertion order
    depthFirst,     \* MutableRegistry.depthFirstListeners
    stack,          \* the JavaScript call stack of the task that is running
    exc,            \* an exception is propagating up the stack
    fWrote,         \* history: what the functions passed to mutate wrote in this task
    calls,          \* history: the calls application code made in this task
    rv,             \* phase of the revert round trip (SpecRevert)
    path            \* the last findAncestorPath call: its target and what it returned

vars == <<tree, preTree, pending, queue, isObserving, shouldRevert, nodeRef,
          hasObserver, idToNode, nodeToHandler, depthFirst, stack, exc, fWrote, calls, rv,
          path>>

lockVars == <<queue, isObserving, shouldRevert, nodeRef, hasObserver>>
regVars == <<idToNode, nodeToHandler, depthFirst>>

-----------------------------------------------------------------------------
(* Bounds *)

\* records in one batch of the revert round trip (SpecRevert)
MaxBatch == 3
\* records the observer holds undelivered (Spec)
MaxPending == 2
\* calls into the lock and writes that the functions passed to mutate make in one task
MaxCalls == 1

-----------------------------------------------------------------------------
(* The DOM tree *)

Null == "null"
Undefined == "undefined"
Nodes == {"R", "A", "B", "T", "N"}
TextNodes == {"T"}
Elements == Nodes \ TextNodes
Root == "R"
AttrVals == {Null, "1"}
TextVals == {"a", "b"}

Range(s) == {s[i] : i \in DOMAIN s}

Reverse(s) == [i \in 1..Len(s) |-> s[Len(s) + 1 - i]]

MkTree(k, a, x) == [kids |-> k, attr |-> a, text |-> x]

NoKids == [n \in Nodes |-> <<>>]
NoAttr == [n \in Nodes |-> Null]
InitText == [n \in Nodes |-> IF n \in TextNodes THEN "a" ELSE ""]

\* R > [A > [T], B], with data-x="1" on A; N is a node not yet in the document
TreeNested == MkTree([NoKids EXCEPT !["R"] = <<"A", "B">>, !["A"] = <<"T">>],
                     [NoAttr EXCEPT !["A"] = "1"], InitText)
\* R > [A, T, B]
TreeFlat == MkTree([NoKids EXCEPT !["R"] = <<"A", "T", "B">>], NoAttr, InitText)

\* node.parentNode
ParentOf(t, n) ==
    IF \E p \in Nodes : n \in Range(t.kids[p])
    THEN CHOOSE p \in Nodes : n \in Range(t.kids[p])
    ELSE Null

IndexOf(s, n) == CHOOSE i \in DOMAIN s : s[i] = n

\* node.nextSibling
NextSiblingOf(t, n) ==
    LET p == ParentOf(t, n) IN
    IF p = Null THEN Null
    ELSE LET s == t.kids[p]
             i == IndexOf(s, n)
         IN IF i < Len(s) THEN s[i + 1] ELSE Null

Without(s, n) == SelectSeq(s, LAMBDA x : x # n)

InsertInto(s, n, ref) ==
    IF ref = Null THEN Append(s, n)
    ELSE LET i == IndexOf(s, ref)
         IN SubSeq(s, 1, i - 1) \o <<n>> \o SubSeq(s, i, Len(s))

\* a.contains(n): a is n or an ancestor of n in tree t
RECURSIVE Contains(_, _, _)
Contains(t, a, n) ==
    IF n = Null THEN FALSE
    ELSE IF n = a THEN TRUE
    ELSE Contains(t, a, ParentOf(t, n))

Subtree(t, r) == {n \in Nodes : Contains(t, r, n)}

\* parent.removeChild(n)
DomRemoveChild(t, n) == [t EXCEPT !.kids = [p \in Nodes |-> Without(t.kids[p], n)]]

\* whether parent.insertBefore(n, ref) succeeds: it throws NotFoundError when ref is
\* not a child of parent, HierarchyRequestError when n contains parent or parent
\* cannot have children
CanInsert(t, p, n, ref) ==
    /\ p \in Elements
    /\ ~Contains(t, n, p)
    /\ (ref = Null \/ ParentOf(t, ref) = p)

\* parent.insertBefore(n, ref); n is first removed from its parent
DomInsertBefore(t, p, n, ref) ==
    LET ref2 == IF ref = n THEN NextSiblingOf(t, n) ELSE ref
        t1 == DomRemoveChild(t, n)
    IN [t1 EXCEPT !.kids[p] = InsertInto(@, n, ref2)]

\* equality of the guarded trees: structure, child order, attributes, text
SameTree(t1, t2) ==
    /\ Subtree(t1, Root) = Subtree(t2, Root)
    /\ \A n \in Subtree(t1, Root) :
          /\ t1.kids[n] = t2.kids[n]
          /\ t1.attr[n] = t2.attr[n]
          /\ t1.text[n] = t2.text[n]

-----------------------------------------------------------------------------
(* MutationRecord *)

\* the id of a record that is in no batch of the task (records get ids from 1)
Foreign == 0

AttrRec(n, old) ==
    [id |-> 0, type |-> "attributes", target |-> n, oldValue |-> old,
     removed |-> <<>>, added |-> <<>>, nextSibling |-> Null]

TextRec(n, old) ==
    [id |-> 0, type |-> "characterData", target |-> n, oldValue |-> old,
     removed |-> <<>>, added |-> <<>>, nextSibling |-> Null]

ChildRec(p, rem, add, next) ==
    [id |-> 0, type |-> "childList", target |-> p, oldValue |-> Null,
     removed |-> rem, added |-> add, nextSibling |-> next]

\* the records of one change, appended to a record queue; a record's id is its identity
Enqueue(q, recs) ==
    q \o [i \in 1..Len(recs) |-> [recs[i] EXCEPT !.id = Len(q) + i]]

\* the nodes a MutationObserver on root (subtree: true) reports changes of: the
\* subtree, and the subtrees removed from it since the last delivery
Watched(t, root, recs) ==
    Subtree(t, root) \cup
    UNION {UNION {Subtree(t, x) : x \in Range(recs[i].removed)} : i \in DOMAIN recs}

-----------------------------------------------------------------------------
(* The changes the browser (native editing) or a script can make to the tree,
   each with the records a MutationObserver queues for it *)

Change(t, recs) == [t |-> t, recs |-> recs]

\* element.setAttribute("data-x", v) / element.removeAttribute("data-x")
SetAttributeChanges(t, w) ==
    {Change([t EXCEPT !.attr[e] = v], <<AttrRec(e, t.attr[e])>>) :
        <<e, v>> \in {x \in (w \cap Elements) \X AttrVals : t.attr[x[1]] # x[2]}}

\* text.data = v
SetDataChanges(t, w) ==
    {Change([t EXCEPT !.text[n] = v], <<TextRec(n, t.text[n])>>) :
        <<n, v>> \in {x \in (w \cap TextNodes) \X TextVals : t.text[x[1]] # x[2]}}

\* parent.removeChild(c)
RemoveChildChanges(t, w, movable) ==
    {Change(DomRemoveChild(t, c),
            <<ChildRec(ParentOf(t, c), <<c>>, <<>>, NextSiblingOf(t, c))>>) :
        c \in {x \in movable : ParentOf(t, x) \in w}}

\* parent.insertBefore(n, ref): a node that has a parent is moved (two records)
InsertBeforeChanges(t, w, movable) ==
    {Change(DomInsertBefore(t, x[1], x[2], x[3]),
            (IF ParentOf(t, x[2]) \in w
             THEN <<ChildRec(ParentOf(t, x[2]), <<x[2]>>, <<>>, NextSiblingOf(t, x[2]))>>
             ELSE <<>>)
            \o <<ChildRec(x[1], <<>>, <<x[2]>>,
                          IF x[3] = x[2] THEN NextSiblingOf(t, x[2]) ELSE x[3])>>) :
        x \in {y \in (w \cap Elements) \X movable \X (Nodes \cup {Null}) :
                 /\ CanInsert(t, y[1], y[2], y[3])
                 /\ y[3] # y[2]
                 /\ ~(ParentOf(t, y[2]) = y[1] /\ NextSiblingOf(t, y[2]) = y[3])}}

\* parent.replaceChildren() / parent.replaceChildren(n) with n not in a tree (also
\* parent.textContent = ...): one record with every child removed
ReplaceChildrenChanges(t, w) ==
    {Change([t EXCEPT !.kids[x[1]] = x[2]],
            <<ChildRec(x[1], t.kids[x[1]], x[2], Null)>>) :
        x \in {y \in (w \cap Elements) \X ({<<>>} \cup {<<n>> : n \in Nodes \ {Root}}) :
                 /\ t.kids[y[1]] # <<>>
                 /\ \A n \in Range(y[2]) :
                       ParentOf(t, n) = Null /\ ~Contains(t, n, y[1])}}

\* parent.replaceChild(new, old) with new not in a tree: one record that removes
\* old and adds new
ReplaceChildChanges(t, w) ==
    {Change([t EXCEPT !.kids[ParentOf(t, x[2])] =
                 [i \in DOMAIN @ |-> IF @[i] = x[2] THEN x[1] ELSE @[i]]],
            <<ChildRec(ParentOf(t, x[2]), <<x[2]>>, <<x[1]>>, NextSiblingOf(t, x[2]))>>) :
        x \in {y \in (Nodes \ {Root}) \X Nodes :
                 /\ ParentOf(t, y[2]) \in w
                 /\ ParentOf(t, y[1]) = Null
                 /\ ~Contains(t, y[1], y[2])}}

AllChanges(t, w) ==
    SetAttributeChanges(t, w) \cup SetDataChanges(t, w)
    \cup RemoveChildChanges(t, w, Nodes \ {Root})
    \cup InsertBeforeChanges(t, w, Nodes \ {Root}) \cup ReplaceChildrenChanges(t, w)
    \cup ReplaceChildChanges(t, w)

-----------------------------------------------------------------------------
(* revertDOMMutation and the revert pass *)

Outcome(t, ok) == [t |-> t, ok |-> ok]

\* for (i = removedNodes.length - 1; i >= 0; i--) target.insertBefore(removedNodes[i], nextSibling)
RECURSIVE ReinsertRemoved(_, _, _)
ReinsertRemoved(t, m, i) ==
    IF i = 0 THEN Outcome(t, TRUE)
    ELSE IF ~CanInsert(t, m.target, m.removed[i], m.nextSibling) THEN Outcome(t, FALSE)
    ELSE ReinsertRemoved(DomInsertBefore(t, m.target, m.removed[i], m.nextSibling), m, i - 1)

\* for (i = addedNodes.length - 1; i >= 0; i--) if (node.parentNode) node.parentNode.removeChild(node)
RECURSIVE DetachAdded(_, _, _)
DetachAdded(t, m, i) ==
    IF i = 0 THEN t
    ELSE DetachAdded(IF ParentOf(t, m.added[i]) # Null
                     THEN DomRemoveChild(t, m.added[i]) ELSE t, m, i - 1)

\* revertDOMMutation(mutation): the tree after it, and whether it returned (ok) or threw
RevertDOMMutation(t, m) ==
    CASE m.type = "attributes" ->
           IF m.target \in Elements
           THEN Outcome([t EXCEPT !.attr[m.target] = m.oldValue], TRUE)
           ELSE Outcome(t, TRUE)
      [] m.type = "characterData" ->
           Outcome([t EXCEPT !.text[m.target] = m.oldValue], TRUE)
      [] m.type = "childList" ->
           LET r == ReinsertRemoved(t, m, Len(m.removed))
           IN IF r.ok THEN Outcome(DetachAdded(r.t, m, Len(m.added)), TRUE) ELSE r

\* for (const mutation of mutations.reverse()) revertDOMMutation(mutation):
\* newest first; an exception ends the loop
RECURSIVE RevertPass(_, _, _)
RevertPass(t, batch, i) ==
    IF i = 0 THEN Outcome(t, TRUE)
    ELSE LET r == RevertDOMMutation(t, batch[i])
         IN IF r.ok THEN RevertPass(r.t, batch, i - 1) ELSE r

RollBack(t, batch) == RevertPass(t, batch, Len(batch))

-----------------------------------------------------------------------------
(* MutableRegistry *)

EmptyMap == [x \in {} |-> Null]
Ids == {"root", "child"}

Entry(n, h) == [node |-> n, h |-> h]

\* Map.set(key, value): an existing key keeps its place
MapSet(m, n, h) ==
    IF \E i \in DOMAIN m : m[i].node = n
    THEN [i \in DOMAIN m |-> IF m[i].node = n THEN Entry(n, h) ELSE m[i]]
    ELSE Append(m, Entry(n, h))

\* Map.delete(key)
MapDelete(m, n) == SelectSeq(m, LAMBDA e : e.node # n)

\* unregister(id): the entry of idToNode, and the handler stored for its node
\* (idToNode.get(id) of an id that is not registered is undefined)
UnregisterId(i2n, id) == [x \in DOMAIN i2n \ {id} |-> i2n[x]]
UnregisterHandler(i2n, n2h, id) ==
    MapDelete(n2h, IF id \in DOMAIN i2n THEN i2n[id] ELSE Undefined)

\* register(id, node, onMutations)
RegisterId(i2n, id, n) ==
    [x \in DOMAIN i2n \cup {id} |-> IF x = id THEN n ELSE i2n[x]]
RegisterHandler(i2n, n2h, id, n) == MapSet(UnregisterHandler(i2n, n2h, id), n, id)

\* the comparator findAncestorPath sorts with
CompareAncestors(t, a, b) ==
    IF Contains(t, a, b) THEN 1
    ELSE IF Contains(t, b, a) THEN -1
    ELSE 0

\* Array.prototype.sort(compare): a stable insertion sort
InsertSorted(t, s, x) ==
    LET j == CHOOSE k \in 0..Len(s) :
                 /\ k = 0 \/ CompareAncestors(t, s[k], x) <= 0
                 /\ \A l \in (k + 1)..Len(s) : CompareAncestors(t, s[l], x) > 0
    IN SubSeq(s, 1, j) \o <<x>> \o SubSeq(s, j + 1, Len(s))

RECURSIVE SortAncestors(_, _)
SortAncestors(t, s) ==
    IF s = <<>> THEN <<>>
    ELSE InsertSorted(t, SortAncestors(t, SubSeq(s, 1, Len(s) - 1)), s[Len(s)])

\* findAncestorPath(targetNode): node.contains(targetNode) is called on every key that
\* is not targetNode itself; on a key that is undefined it is a TypeError
FindAncestorPath(t, n2h, target) ==
    LET keys == [i \in DOMAIN n2h |-> n2h[i].node]
    IN IF \E i \in DOMAIN keys : keys[i] = Undefined
       THEN [threw |-> TRUE, out |-> <<>>]
       ELSE [threw |-> FALSE,
             out |-> SortAncestors(t, SelectSeq(keys, LAMBDA n : Contains(t, n, target)))]

\* no findAncestorPath call since the registry last changed
NoCall == [target |-> Null, threw |-> FALSE, out |-> <<>>]

\* document order: the nodes of the subtree of r, parents first
RECURSIVE Preorder(_, _)
RECURSIVE PreorderAll(_, _, _)
Preorder(t, r) == <<r>> \o PreorderAll(t, t.kids[r], 1)
PreorderAll(t, ks, i) ==
    IF i > Len(ks) THEN <<>> ELSE Preorder(t, ks[i]) \o PreorderAll(t, ks, i + 1)

DocIndex(t, n) ==
    LET o == Preorder(t, Root)
    IN IF n \in Range(o) THEN IndexOf(o, n) ELSE 0

\* a is visited before b: a is inside b, or they are unrelated and a precedes b
VisitedBefore(t, a, b) ==
    \/ a # b /\ Contains(t, b, a)
    \/ ~Contains(t, a, b) /\ ~Contains(t, b, a) /\ DocIndex(t, a) < DocIndex(t, b)

\* registry.depthFirstListeners: the listeners, innermost first
DepthFirstListeners(t, n2h) ==
    [i \in DOMAIN n2h |->
        CHOOSE e \in Range(n2h) :
            Cardinality({d \in Range(n2h) : VisitedBefore(t, d.node, e.node)}) = i - 1]

-----------------------------------------------------------------------------
(* RevertedTree: the parents before the batch *)


\* RevertedTree.revertDOMMutation: every removed node gets previousParent = target
RevertedRecord(ov, m) ==
    IF m.type = "childList"
    THEN [n \in Nodes |-> IF n \in Range(m.removed) THEN m.target ELSE ov[n]]
    ELSE ov

\* RevertedTree.forMutations: the batch, newest first
RECURSIVE ForMutationsFrom(_, _, _)
ForMutationsFrom(ov, batch, i) ==
    IF i = 0 THEN ov ELSE ForMutationsFrom(RevertedRecord(ov, batch[i]), batch, i - 1)

\* forMutations without the reverse(): the batch, oldest first
RECURSIVE ForMutationsForwardFrom(_, _, _)
ForMutationsForwardFrom(ov, batch, i) ==
    IF i > Len(batch) THEN ov
    ELSE ForMutationsForwardFrom(RevertedRecord(ov, batch[i]), batch, i + 1)

ForMutationsForward(batch) == ForMutationsForwardFrom([n \in Nodes |-> Undefined], batch, 1)

ForMutations(batch) == ForMutationsFrom([n \in Nodes |-> Undefined], batch, Len(batch))

\* RevertedNode.parentNode: previousParent when set, else the live parent
RevertedParent(ov, t, n) == IF ov[n] # Undefined THEN ov[n] ELSE ParentOf(t, n)

\* the loop of mutationIsInside: from parent upward, looking for node. fuel bounds
\* the walk: a chain longer than the tree is a cycle that does not hold node, on
\* which the loop of the code does not end
RECURSIVE WalkFinds(_, _, _, _, _)
WalkFinds(ov, t, parent, node, fuel) ==
    IF parent = Null \/ fuel = 0 THEN FALSE
    ELSE IF parent = node THEN TRUE
    ELSE WalkFinds(ov, t, RevertedParent(ov, t, parent), node, fuel - 1)

\* RevertedTree.mutationIsInside(mutation, node)
MutationIsInside(ov, t, m, node) ==
    IF m.target = node THEN TRUE
    ELSE WalkFinds(ov, t, RevertedParent(ov, t, node), node, Cardinality(Nodes) + 1)

\* FilteredMutations with the filter dropped: every record of the batch goes to
\* every listener
FilteredMutationsUnfiltered(batch, stopSet, ov, t, node) ==
    {batch[i].id : i \in DOMAIN batch}

\* handleAllMutations: filteredMutations, as the set of the records' ids
FilteredMutations(batch, stopSet, ov, t, node) ==
    {batch[i].id : i \in {j \in DOMAIN batch :
                            /\ batch[j].id \notin stopSet
                            /\ MutationIsInside(ov, t, batch[j], node)}}

\* event.mutationsIn(parentNode)
MutationsIn(batch, filtered, ov, t, parentNode) ==
    {batch[i].id : i \in {j \in DOMAIN batch :
                            /\ batch[j].id \in filtered
                            /\ MutationIsInside(ov, t, batch[j], parentNode)}}

-----------------------------------------------------------------------------
(* The mutation lock of useRevertMutations and the call stack *)

Frame0 ==
    [op |-> "none", pc |-> "none", lock |-> FALSE, arg |-> "none", hadPending |-> FALSE,
     batch |-> <<>>, ov |-> [n \in Nodes |-> Undefined], ls |-> <<>>, idx |-> 0, stop |-> {}, log |-> <<>>,
     node |-> Null, ev |-> {}, stopped |-> FALSE, mutated |-> FALSE, steps |-> 0]

Top == stack[Len(stack)]
Popped == SubSeq(stack, 1, Len(stack) - 1)
WithTop(st, f) == [st EXCEPT ![Len(st)] = f]

\* the observer is registered on the root: what is changed is recorded
Attached == hasObserver /\ isObserving

\* isLocked(): return shouldRevert.current
IsLocked == shouldRevert

\* startObserving(): the value of isObserving after it
StartObserving(obs, node) == IF obs THEN TRUE ELSE node # Null

\* lockAfterRender(): the value of isObserving after it
LockAfterRender(obs, node, revert) == IF revert THEN StartObserving(obs, node) ELSE obs

\* observer.disconnect() empties the observer's record queue
Disconnect(records) == <<>>
\* observer.takeRecords() returns the observer's record queue
TakeRecords(records) == records

\* const mutations = queue.concat(observer.takeRecords()), after observer.disconnect()
RollBackBatch(q, records) == q \o TakeRecords(Disconnect(records))

\* the caller's frame when the call it made returns
Resumed(f) ==
    CASE f.op = "callback" /\ f.pc = "stop" -> [f EXCEPT !.pc = "start"]
      [] f.op = "mutate" /\ f.pc = "stop" -> [f EXCEPT !.pc = "fn"]
      [] f.op = "mutate" /\ f.pc = "infn" -> [f EXCEPT !.pc = "finally"]
      [] f.op = "unlock" /\ f.pc = "stop" -> [f EXCEPT !.pc = "done"]
      [] f.op = "rollback" /\ f.pc = "dispatch" -> [f EXCEPT !.pc = "revert"]
      [] f.op = "dispatch" /\ f.pc = "called" ->
           IF Cardinality(f.stop) = Len(f.batch)
           THEN [f EXCEPT !.pc = "done"]
           ELSE [f EXCEPT !.pc = "loop", !.idx = @ + 1]
      [] OTHER -> f

\* the stack after the top frame returned to its caller
Returned == IF Len(stack) = 1 THEN <<>> ELSE WithTop(Popped, Resumed(Popped[Len(Popped)]))

\* an exception leaves the frames of st, up to a mutate whose finally block has not
\* run: what is left of the stack
RECURSIVE Unwound(_)
Unwound(st) ==
    IF st = <<>> THEN <<>>
    ELSE IF st[Len(st)].op = "mutate" /\ st[Len(st)].pc # "exit" THEN st
    ELSE Unwound(SubSeq(st, 1, Len(st) - 1))

\* the top frame throws: the exception propagates to the finally block of the
\* nearest mutate, which runs (if (shouldLockAfterMutation) startObserving()), or
\* out of the task
Throw ==
    LET u == Unwound(Popped)
    IN /\ stack' = IF u = <<>> THEN <<>> ELSE WithTop(u, [u[Len(u)] EXCEPT !.pc = "exit"])
       /\ exc' = (u # <<>>)
       /\ isObserving' = IF u # <<>> /\ u[Len(u)].lock
                         THEN StartObserving(isObserving, nodeRef) ELSE isObserving

\* history variables: the tree before the batch, and what f wrote in this task
History(newTree, newPending, newStack, newWrote, newCalls) ==
    /\ preTree' = IF newStack = <<>> /\ newPending = <<>> THEN newTree ELSE preTree
    /\ fWrote' = IF newStack = <<>> THEN {} ELSE newWrote
    /\ calls' = IF newStack = <<>> THEN 0 ELSE newCalls
    /\ path' = path

MutateFrame(arg) ==
    [Frame0 EXCEPT !.op = "mutate", !.pc = "stop", !.lock = isObserving, !.arg = arg,
                   !.hadPending = Attached /\ pending # <<>>]

-----------------------------------------------------------------------------
(* Spec: the lock, the observer callback and the dispatch, step by step *)

\* the changes of native editing: the attribute of A, the text T, and A removed
EditChanges(t, w) ==
    SetAttributeChanges(t, w \cap {"A"}) \cup SetDataChanges(t, w)
    \cup RemoveChildChanges(t, w, {"A"})

\* what a function passed to mutate writes: the attribute of A
FnChanges(t) == SetAttributeChanges(t, {"A"})

\* what a change wrote: the text or the attribute of its target
Written(c) ==
    LET m == c.recs[1]
    IN [kind |-> m.type, node |-> m.target,
        val |-> IF m.type = "attributes" THEN c.t.attr[m.target] ELSE c.t.text[m.target]]

StillWritten(t, w) ==
    IF w.kind = "attributes" THEN t.attr[w.node] = w.val ELSE t.text[w.node] = w.val

Init ==
    /\ tree = TreeNested
    /\ preTree = tree
    /\ pending = <<>>
    /\ queue = <<>>
    /\ isObserving = FALSE
    /\ shouldRevert \in BOOLEAN
    /\ nodeRef = Null
    /\ hasObserver \in BOOLEAN
    /\ idToNode = EmptyMap
    /\ nodeToHandler = <<>>
    /\ depthFirst = <<>>
    /\ stack = <<>>
    /\ exc = FALSE
    /\ fWrote = {}
    /\ calls = 0
    /\ path = NoCall
    /\ rv = "idle"

Idle == stack = <<>> /\ ~exc
Running(op) == stack # <<>> /\ ~exc /\ Top.op = op

\* native editing changes the tree; the observer records it when it is attached
NativeChange ==
    /\ Idle
    /\ \E c \in EditChanges(tree, IF Attached THEN Watched(tree, nodeRef, pending)
                                  ELSE Nodes) :
          /\ tree' = c.t
          /\ pending' = IF Attached THEN Enqueue(pending, c.recs) ELSE pending
          /\ Len(pending') <= MaxPending
    /\ UNCHANGED <<lockVars, regVars, stack, exc, rv>>
    /\ History(tree', pending', stack', fWrote, calls)

\* new MutationObserver(records => { queue.push(...records); ... })
ObserverCallback ==
    /\ Idle
    /\ hasObserver
    /\ pending # <<>>
    /\ queue' = queue \o pending
    /\ pending' = <<>>
    /\ stack' = <<[Frame0 EXCEPT !.op = "callback", !.pc = "stop"]>>
    /\ UNCHANGED <<tree, isObserving, shouldRevert, nodeRef, hasObserver, regVars, exc, rv>>
    /\ History(tree', pending', stack', fWrote, calls)

\* stopObservingAndRollBackChanges(), up to the call of onMutationsRef.current: with
\* an empty batch handleAllMutations calls no handler and nothing is reverted
StopObserving ==
    /\ stack # <<>> /\ ~exc
    /\ Top.op \in {"callback", "mutate", "unlock"}
    /\ Top.pc = "stop"
    /\ IF ~hasObserver
       THEN /\ stack' = WithTop(stack, Resumed(Top))
            /\ UNCHANGED <<isObserving, pending, queue>>
       ELSE LET mutations == RollBackBatch(queue, pending)
            IN /\ isObserving' = FALSE
               /\ pending' = Disconnect(pending)
               /\ queue' = <<>>
               /\ stack' =
                    IF mutations = <<>>
                    THEN WithTop(stack, Resumed(Top))
                    ELSE stack \o
                         <<[Frame0 EXCEPT !.op = "rollback", !.pc = "dispatch",
                                          !.batch = mutations],
                           [Frame0 EXCEPT !.op = "dispatch", !.pc = "loop",
                                          !.batch = mutations,
                                          !.ov = ForMutations(mutations),
                                          !.ls = depthFirst, !.idx = 1]>>
    /\ UNCHANGED <<tree, shouldRevert, nodeRef, hasObserver, regVars, exc, rv>>
    /\ History(tree', pending', stack', fWrote, calls)

\* handleAllMutations: one turn of the loop over registry.depthFirstListeners
DispatchVisit ==
    /\ Running("dispatch")
    /\ Top.pc = "loop"
    /\ LET d == Top
           filtered == IF d.idx > Len(d.ls) THEN {}
                       ELSE FilteredMutations(d.batch, d.stop, d.ov, tree, d.ls[d.idx].node)
       IN stack' =
            IF d.idx > Len(d.ls) THEN WithTop(stack, [d EXCEPT !.pc = "done"])
            ELSE IF filtered = {} THEN WithTop(stack, [d EXCEPT !.idx = @ + 1])
            ELSE WithTop(stack,
                         [d EXCEPT !.pc = "called",
                                   !.log = Append(@, [node |-> d.ls[d.idx].node,
                                                      ev |-> filtered,
                                                      stopBefore |-> d.stop])])
                 \o <<[Frame0 EXCEPT !.op = "handler", !.pc = "run",
                                     !.node = d.ls[d.idx].node, !.ev = filtered]>>
    /\ UNCHANGED <<tree, pending, lockVars, regVars, exc, rv>>
    /\ History(tree', pending', stack', fWrote, calls)

\* handleAllMutations returns
DispatchReturn ==
    /\ Running("dispatch")
    /\ Top.pc = "done"
    /\ stack' = Returned
    /\ UNCHANGED <<tree, pending, lockVars, regVars, exc, rv>>
    /\ History(tree', pending', stack', fWrote, calls)

\* a handler calls event.stopPropagation with some of the records of event.mutations,
\* and possibly a record it kept from an earlier batch
HandlerStop ==
    /\ Running("handler")
    /\ ~Top.stopped
    /\ \E claimed \in (SUBSET (Top.ev \cup {Foreign})) \ {{}} :
          stack' = [stack EXCEPT ![Len(stack)].stopped = TRUE,
                                  ![Len(stack) - 1].stop = @ \cup claimed]
    /\ UNCHANGED <<tree, pending, lockVars, regVars, exc, rv>>
    /\ History(tree', pending', stack', fWrote, calls)

\* a handler calls lock.mutate(f); a handler that also calls
\* stopPropagation does it afterwards (neither call reads what the other wrote)
HandlerMutate ==
    /\ Running("handler")
    /\ ~Top.mutated
    /\ ~Top.stopped
    /\ stack' = Append(WithTop(stack, [Top EXCEPT !.mutated = TRUE]), MutateFrame("app"))
    /\ UNCHANGED <<tree, pending, lockVars, regVars, exc, rv>>
    /\ History(tree', pending', stack', fWrote, calls)

HandlerReturn ==
    /\ Running("handler")
    /\ stack' = Returned
    /\ UNCHANGED <<tree, pending, lockVars, regVars, exc, rv>>
    /\ History(tree', pending', stack', fWrote, calls)

HandlerThrow ==
    /\ Running("handler")
    /\ Throw
    /\ UNCHANGED <<tree, pending, queue, shouldRevert, nodeRef, hasObserver, regVars, rv>>
    /\ History(tree', pending', stack', fWrote, calls)

\* stopObservingAndRollBackChanges(): the loop that reverts the batch, newest first
RevertMutations ==
    /\ Running("rollback")
    /\ Top.pc = "revert"
    /\ LET r == RollBack(tree, Top.batch)
       IN /\ tree' = r.t
          /\ IF r.ok
             THEN stack' = Returned /\ UNCHANGED <<exc, isObserving>>
             ELSE Throw
    /\ UNCHANGED <<pending, queue, shouldRevert, nodeRef, hasObserver, regVars, rv>>
    /\ History(tree', pending', stack', fWrote, calls)

\* the observer callback, after stopObservingAndRollBackChanges(): startObserving()
CallbackStartObserving ==
    /\ Running("callback")
    /\ Top.pc = "start"
    /\ isObserving' = StartObserving(isObserving, nodeRef)
    /\ stack' = Returned
    /\ UNCHANGED <<tree, pending, queue, shouldRevert, nodeRef, hasObserver, regVars, exc, rv>>
    /\ History(tree', pending', stack', fWrote, calls)

\* mutate(fn), from application code outside any task
CallMutate ==
    /\ Idle
    /\ stack' = <<MutateFrame("app")>>
    /\ UNCHANGED <<tree, pending, lockVars, regVars, exc, rv>>
    /\ History(tree', pending', stack', fWrote, calls)

\* setNode(node): mutate(() => (nodeRef.current = node)), the ref callback
SetNode ==
    /\ Idle
    /\ \E n \in {Root, Null} :
          /\ n # nodeRef
          /\ stack' = <<MutateFrame(n)>>
    /\ UNCHANGED <<tree, pending, lockVars, regVars, exc, rv>>
    /\ History(tree', pending', stack', fWrote, calls)

\* mutate: return fn(nodeRef.current), fn being application code
MutateCallFn ==
    /\ Running("mutate")
    /\ Top.pc = "fn"
    /\ Top.arg = "app"
    /\ stack' = Append(WithTop(stack, [Top EXCEPT !.pc = "infn"]),
                       [Frame0 EXCEPT !.op = "fn", !.pc = "run"])
    /\ UNCHANGED <<tree, pending, lockVars, regVars, exc, rv>>
    /\ History(tree', pending', stack', fWrote, calls)

\* mutate: return fn(nodeRef.current), fn being () => (nodeRef.current = node)
MutateSetNode ==
    /\ Running("mutate")
    /\ Top.pc = "fn"
    /\ Top.arg # "app"
    /\ nodeRef' = Top.arg
    /\ stack' = WithTop(stack, [Top EXCEPT !.pc = "finally"])
    /\ UNCHANGED <<tree, pending, queue, isObserving, shouldRevert, hasObserver,
                   regVars, exc, rv>>
    /\ History(tree', pending', stack', fWrote, calls)

\* mutate: finally { if (shouldLockAfterMutation) startObserving() }
MutateFinally ==
    /\ Running("mutate")
    /\ Top.pc = "finally"
    /\ isObserving' = IF Top.lock THEN StartObserving(isObserving, nodeRef) ELSE isObserving
    /\ stack' = WithTop(stack, [Top EXCEPT !.pc = "exit"])
    /\ UNCHANGED <<tree, pending, queue, shouldRevert, nodeRef, hasObserver, regVars, exc, rv>>
    /\ History(tree', pending', stack', fWrote, calls)

\* mutate returns to its caller
MutateExit ==
    /\ Running("mutate")
    /\ Top.pc = "exit"
    /\ stack' = Returned
    /\ UNCHANGED <<tree, pending, lockVars, regVars, exc, rv>>
    /\ History(tree', pending', stack', fWrote, calls)

\* fn writes to the tree; an attached observer records it
FnWrite ==
    /\ Running("fn")
    /\ calls < MaxCalls
    /\ \E c \in FnChanges(tree) :
          /\ tree' = c.t
          /\ pending' = IF Attached /\ c.recs[1].target \in Watched(tree, nodeRef, pending)
                        THEN Enqueue(pending, c.recs) ELSE pending
          /\ Len(pending') <= MaxPending
          /\ stack' = WithTop(stack, [Top EXCEPT !.steps = @ + 1])
          /\ History(tree', pending', stack',
                     {w \in fWrote : ~(w.kind = Written(c).kind /\ w.node = Written(c).node)}
                     \cup {Written(c)},
                     calls + 1)
    /\ UNCHANGED <<lockVars, regVars, exc, rv>>

\* fn calls lockAfterRender(), itself or through a render it triggers
FnLockAfterRender ==
    /\ Running("fn")
    /\ calls < MaxCalls
    /\ isObserving' = LockAfterRender(isObserving, nodeRef, shouldRevert)
    /\ stack' = WithTop(stack, [Top EXCEPT !.steps = @ + 1])
    /\ UNCHANGED <<tree, pending, queue, shouldRevert, nodeRef, hasObserver, regVars, exc, rv>>
    /\ History(tree', pending', stack', fWrote, calls + 1)

\* fn calls unlockForRender()
FnUnlockForRender ==
    /\ Running("fn")
    /\ calls < MaxCalls
    /\ stack' = Append(WithTop(stack, [Top EXCEPT !.steps = @ + 1]),
                       [Frame0 EXCEPT !.op = "unlock", !.pc = "stop"])
    /\ UNCHANGED <<tree, pending, lockVars, regVars, exc, rv>>
    /\ History(tree', pending', stack', fWrote, calls + 1)

\* fn calls mutate
FnMutate ==
    /\ Running("fn")
    /\ calls < MaxCalls
    /\ stack' = Append(WithTop(stack, [Top EXCEPT !.steps = @ + 1]), MutateFrame("app"))
    /\ UNCHANGED <<tree, pending, lockVars, regVars, exc, rv>>
    /\ History(tree', pending', stack', fWrote, calls + 1)

FnReturn ==
    /\ Running("fn")
    /\ stack' = Returned
    /\ UNCHANGED <<tree, pending, lockVars, regVars, exc, rv>>
    /\ History(tree', pending', stack', fWrote, calls)

FnThrow ==
    /\ Running("fn")
    /\ Throw
    /\ UNCHANGED <<tree, pending, queue, shouldRevert, nodeRef, hasObserver, regVars, rv>>
    /\ History(tree', pending', stack', fWrote, calls)

\* unlockForRender(), from a layout effect's cleanup
CallUnlockForRender ==
    /\ Idle
    /\ stack' = <<[Frame0 EXCEPT !.op = "unlock", !.pc = "stop"]>>
    /\ UNCHANGED <<tree, pending, lockVars, regVars, exc, rv>>
    /\ History(tree', pending', stack', fWrote, calls)

\* unlockForRender returns
UnlockReturn ==
    /\ Running("unlock")
    /\ Top.pc = "done"
    /\ stack' = Returned
    /\ UNCHANGED <<tree, pending, lockVars, regVars, exc, rv>>
    /\ History(tree', pending', stack', fWrote, calls)

\* lockAfterRender(), from the layout effect of useUnlockForRender
CallLockAfterRender ==
    /\ Idle
    /\ isObserving' = LockAfterRender(isObserving, nodeRef, shouldRevert)
    /\ UNCHANGED <<tree, pending, queue, shouldRevert, nodeRef, hasObserver, regVars,
                   stack, exc, rv>>
    /\ History(tree', pending', stack', fWrote, calls)

\* the layout effect of useRevertMutations: shouldRevert.current = revert; lockAfterRender()
LayoutEffect ==
    /\ Idle
    /\ \E revert \in BOOLEAN :
          /\ shouldRevert' = revert
          /\ isObserving' = LockAfterRender(isObserving, nodeRef, revert)
    /\ UNCHANGED <<tree, pending, queue, nodeRef, hasObserver, regVars, stack, exc, rv>>
    /\ History(tree', pending', stack', fWrote, calls)

\* mutate exits by the exception that ran its finally block
Unwind ==
    /\ stack # <<>>
    /\ exc
    /\ Throw
    /\ UNCHANGED <<tree, pending, queue, shouldRevert, nodeRef, hasObserver, regVars, rv>>
    /\ History(tree', pending', stack', fWrote, calls)

\* a component with a node in the document registers its handler (an effect)
Register ==
    /\ Idle
    /\ \E id \in Ids :
          LET n == IF id = "root" THEN "R" ELSE "A"
          IN /\ Contains(tree, Root, n)
             /\ id \notin DOMAIN idToNode
             /\ idToNode' = RegisterId(idToNode, id, n)
             /\ nodeToHandler' = RegisterHandler(idToNode, nodeToHandler, id, n)
             /\ depthFirst' = DepthFirstListeners(tree, nodeToHandler')
    /\ UNCHANGED <<tree, pending, lockVars, stack, exc, rv>>
    /\ History(tree', pending', stack', fWrote, calls)

\* the cleanup of that effect
Unregister ==
    /\ Idle
    /\ \E id \in DOMAIN idToNode :
          /\ idToNode' = UnregisterId(idToNode, id)
          /\ nodeToHandler' = UnregisterHandler(idToNode, nodeToHandler, id)
          /\ depthFirst' = DepthFirstListeners(tree, nodeToHandler')
    /\ UNCHANGED <<tree, pending, lockVars, stack, exc, rv>>
    /\ History(tree', pending', stack', fWrote, calls)

Next ==
    \/ NativeChange \/ ObserverCallback \/ StopObserving
    \/ DispatchVisit \/ DispatchReturn
    \/ HandlerStop \/ HandlerMutate \/ HandlerReturn \/ HandlerThrow
    \/ RevertMutations \/ CallbackStartObserving
    \/ CallMutate \/ SetNode \/ MutateCallFn \/ MutateSetNode \/ MutateFinally \/ MutateExit
    \/ FnWrite \/ FnLockAfterRender \/ FnUnlockForRender \/ FnMutate \/ FnReturn \/ FnThrow
    \/ CallUnlockForRender \/ UnlockReturn \/ CallLockAfterRender \/ LayoutEffect
    \/ Unwind \/ Register \/ Unregister

Spec == Init /\ [][Next]_vars

-----------------------------------------------------------------------------
(* Properties of Spec *)

Frames(op) == {i \in DOMAIN stack : stack[i].op = op}

\* the frames of handleAllMutations whose loop over the listeners has ended
PassesDone == {i \in Frames("dispatch") : stack[i].pc = "done"}

\* the listener on node was called with record id in the pass of frame d, as call j
DeliveredAt(d, j, node, id) == d.log[j].node = node /\ id \in d.log[j].ev
Delivered(d, node, id) == \E j \in DOMAIN d.log : DeliveredAt(d, j, node, id)

ListenerNodes(d) == {d.ls[k].node : k \in DOMAIN d.ls}

\* the records claimed when call j of the pass of frame d returned
StoppedAfter(d, j) == IF j < Len(d.log) THEN d.log[j + 1].stopBefore ELSE d.stop

\* the record's target was node or inside node before the batch
ConcernedBefore(node, m) == Contains(preTree, node, m.target)

\* C2: what the function passed to mutate wrote to the tree is still there after
\* mutate returned and the batch in processing was dispatched and reverted.
C2_MutationsNeverReverted ==
    (Frames("fn") = {} /\ Frames("rollback") = {}) =>
        \A w \in fWrote : StillWritten(tree, w)

\* C3: when a dispatch pass ends, every listener has been called with every record
\* nobody claimed whose target was its node or inside its node before the batch.
C3_DeliveredToAncestors ==
    \A i \in PassesDone :
        LET d == stack[i] IN
        \A node \in ListenerNodes(d) : \A k \in DOMAIN d.batch :
            (d.batch[k].id \notin d.stop /\ ConcernedBefore(node, d.batch[k]))
                => Delivered(d, node, d.batch[k].id)

\* C4: with listeners on a and on b inside a, a record nobody claimed whose target is
\* inside b is given to b's handler and, later in the pass, to a's handler.
C4_BubblingOrder ==
    \A i \in PassesDone :
        LET d == stack[i] IN
        \A a \in ListenerNodes(d) : \A b \in ListenerNodes(d) \ {a} :
            \A k \in DOMAIN d.batch :
                (/\ Contains(preTree, a, b)
                 /\ ConcernedBefore(b, d.batch[k])
                 /\ d.batch[k].id \notin d.stop)
                => \E j1 \in DOMAIN d.log : \E j2 \in DOMAIN d.log :
                      /\ j1 < j2
                      /\ DeliveredAt(d, j1, b, d.batch[k].id)
                      /\ DeliveredAt(d, j2, a, d.batch[k].id)

C6_MutationsIn ==
    \A i \in Frames("handler") :
        LET h == stack[i]
            d == stack[i - 1]
        IN \A n \in Nodes :
              MutationsIn(d.batch, h.ev, d.ov, tree, n) =
              {d.batch[k].id : k \in {x \in DOMAIN d.batch :
                                        /\ d.batch[x].id \in h.ev
                                        /\ ConcernedBefore(n, d.batch[x])}}

\* C7: a handler is called after the batch was reverted: as long as no function passed
\* to mutate has written in this task, a handler sees the tree of before the batch.
C7_RevertThenNotify ==
    (Frames("handler") # {} /\ fWrote = {}) => SameTree(tree, preTree)

\* C8: while a function passed to mutate runs, the observer is not attached.
C8_LockInvariant == Frames("fn") # {} => ~Attached

\* C9: when mutate(f) exits, by return or by exception, with a mounted root that f
\* did not change, the lock is observing if and only if it was when mutate was called.
C9_MutateRestoresLock ==
    \A i \in Frames("mutate") :
        (stack[i].pc = "exit" /\ stack[i].arg = "app" /\ nodeRef # Null)
            => (Attached = (hasObserver /\ stack[i].lock))

\* C10: when mutate(f) is called with the observer attached and changes recorded but
\* not delivered, f starts on the tree of before those changes.
C10_PendingRevertedBeforeF ==
    \A i \in Frames("fn") :
        (stack[i].steps = 0 /\ stack[i - 1].hadPending /\ fWrote = {})
            => SameTree(tree, preTree)

\* C16: on a host with no MutationObserver, isLocked() is false, the observing flag is
\* false, and nothing is dispatched or reverted.
C16_DegradedMode ==
    ~hasObserver =>
        /\ ~IsLocked
        /\ ~isObserving
        /\ Frames("dispatch") = {}
        /\ Frames("rollback") = {}

\* C17: when a pass ends before the last listener, no listener that was not visited
\* had an unclaimed record to receive.
C17_EarlyTerminationSound ==
    \A i \in PassesDone :
        LET d == stack[i] IN
        \A j \in DOMAIN d.ls :
            j > d.idx => FilteredMutations(d.batch, d.stop, d.ov, tree, d.ls[j].node) = {}

\* the observer callback is the task that is running
InCallback == stack # <<>> /\ stack[1].op = "callback"

\* C13: while the observer callback dispatches and reverts a batch the observer is not
\* attached, and when the callback exits, by return or by a handler's exception, the
\* observer is attached again.
C13_ObservationDuringProcessing ==
    [][InCallback =>
         /\ (Frames("handler") \cup Frames("rollback") # {} => ~Attached)
         /\ (stack' = <<>> => Attached')]_vars

\* C14: when the observer callback exits, by return or by a handler's exception, and no
\* function passed to mutate wrote in the task, the batch has been reverted.
C14_ListenerIsolation ==
    [][(InCallback /\ stack' = <<>> /\ fWrote = {}) => SameTree(tree', preTree)]_vars

-----------------------------------------------------------------------------
(* SpecRevert: the revert round trip. A batch of changes is recorded on a guarded
   tree, then the revert pass of stopObservingAndRollBackChanges runs on it. *)

InitTrees == {TreeNested, TreeFlat}

RestIdle ==
    /\ queue = <<>>
    /\ isObserving = TRUE
    /\ shouldRevert = TRUE
    /\ nodeRef = Root
    /\ hasObserver = TRUE
    /\ idToNode = EmptyMap
    /\ nodeToHandler = <<>>
    /\ depthFirst = <<>>
    /\ stack = <<>>
    /\ exc = FALSE
    /\ fWrote = {}
    /\ calls = 0
    /\ path = NoCall

InitRevert ==
    /\ tree \in InitTrees
    /\ preTree = tree
    /\ pending = <<>>
    /\ rv = "recording"
    /\ RestIdle

\* one change to the observed tree, recorded by the observer
RecordChange ==
    /\ rv = "recording"
    /\ \E c \in AllChanges(tree, Watched(tree, Root, pending)) :
          /\ Len(pending) + Len(c.recs) <= MaxBatch
          /\ tree' = c.t
          /\ pending' = Enqueue(pending, c.recs)
    /\ UNCHANGED <<preTree, lockVars, regVars, stack, exc, fWrote, calls, rv, path>>

\* the revert pass on the recorded batch
RevertBatch ==
    /\ rv = "recording"
    /\ pending # <<>>
    /\ LET r == RollBack(tree, pending)
       IN /\ tree' = r.t
          /\ rv' = IF r.ok THEN "reverted" ELSE "threw"
    /\ UNCHANGED <<preTree, pending, lockVars, regVars, stack, exc, fWrote, calls, path>>

NextRevert == RecordChange \/ RevertBatch

SpecRevert == InitRevert /\ [][NextRevert]_vars

\* C1: after the revert pass on any recorded batch, the tree equals the tree before
\* the batch in structure, child order, attributes and text.
C1_RevertRoundTrip == rv # "recording" => (rv = "reverted" /\ SameTree(tree, preTree))

-----------------------------------------------------------------------------
(* SpecUnresolved: the revert pass on a tree that no longer matches the records. The
   handlers run before the revert loop, with the observer disconnected: what one of
   them removes inside mutate is not recorded. *)

\* a handler removes a node of the tree inside lock.mutate, before the revert loop
HandlerChange ==
    /\ rv = "recording"
    /\ pending # <<>>
    /\ \E c \in RemoveChildChanges(tree, Nodes, Nodes \ {Root}) : tree' = c.t
    /\ rv' = "changed"
    /\ UNCHANGED <<preTree, pending, lockVars, regVars, stack, exc, fWrote, calls, path>>

\* the revert loop after it
RevertAfterChange ==
    /\ rv = "changed"
    /\ LET r == RollBack(tree, pending)
       IN /\ tree' = r.t
          /\ rv' = IF r.ok THEN "rolledBack" ELSE "aborted"
    /\ UNCHANGED <<preTree, pending, lockVars, regVars, stack, exc, fWrote, calls, path>>

NextUnresolved == RecordChange \/ HandlerChange \/ RevertAfterChange

SpecUnresolved == InitRevert /\ [][NextUnresolved]_vars

\* C15: after the revert loop, also when the undo of a child-list record failed, every
\* attribute and every text of the batch is back to its value of before the batch.
C15_UnresolvableRevertSkipped ==
    rv \in {"rolledBack", "aborted"} =>
        \A n \in Nodes : tree.attr[n] = preTree.attr[n] /\ tree.text[n] = preTree.text[n]

-----------------------------------------------------------------------------
(* SpecRender: the lock under the calls that rendering makes. A render scope is
   unlockForRender() ... lockAfterRender(); scopes nest. A commit runs the cleanup of
   the layout effects (unlockForRender), then the effects of the child components
   (useUnlockForRender: lockAfterRender), then the effect of useRevertMutations. The
   observer callback does not run here, so queue stays empty. *)

\* render scopes open at once
MaxScopes == 2

InitRender ==
    /\ tree = TreeNested
    /\ preTree = tree
    /\ pending = <<>>
    /\ queue = <<>>
    /\ isObserving = FALSE
    /\ shouldRevert \in BOOLEAN
    /\ nodeRef \in {Null, Root}
    /\ hasObserver \in BOOLEAN
    /\ idToNode = EmptyMap
    /\ nodeToHandler = <<>>
    /\ depthFirst = <<>>
    /\ stack = <<>>
    /\ exc = FALSE
    /\ fWrote = {}
    /\ calls = 0
    /\ path = NoCall
    /\ rv = "idle"

\* unlockForRender(): stopObservingAndRollBackChanges() on an empty queue; the records
\* the observer holds are lost to disconnect(), the batch is empty
UnlockForRender ==
    /\ RollBackBatch(queue, pending) = <<>>
    /\ isObserving' = IF hasObserver THEN FALSE ELSE isObserving
    /\ pending' = IF hasObserver THEN Disconnect(pending) ELSE pending
    /\ queue' = IF hasObserver THEN <<>> ELSE queue

InScopes == \A i \in DOMAIN stack : stack[i].op = "scope"

\* unlockForRender() opens a render scope
OpenScope ==
    /\ InScopes
    /\ Len(stack) < MaxScopes
    /\ UnlockForRender
    /\ stack' = Append(stack, [Frame0 EXCEPT !.op = "scope", !.pc = "open"])
    /\ UNCHANGED <<tree, shouldRevert, nodeRef, hasObserver, regVars, exc, rv>>
    /\ History(tree', pending', stack', fWrote, calls)

\* lockAfterRender() closes the innermost render scope
CloseScope ==
    /\ stack # <<>>
    /\ Top.op = "scope"
    /\ isObserving' = LockAfterRender(isObserving, nodeRef, shouldRevert)
    /\ stack' = Popped
    /\ UNCHANGED <<tree, pending, queue, shouldRevert, nodeRef, hasObserver, regVars, exc, rv>>
    /\ History(tree', pending', stack', fWrote, calls)

\* unlockForRender() of a pair unlockForRender(); lockAfterRender() with nothing
\* in between; the frame keeps the flag, preTree the tree, of before the pair
PairUnlock ==
    /\ InScopes
    /\ UnlockForRender
    /\ stack' = Append(stack, [Frame0 EXCEPT !.op = "pair", !.pc = "unlocked",
                                             !.lock = isObserving])
    /\ preTree' = tree
    /\ UNCHANGED <<tree, shouldRevert, nodeRef, hasObserver, regVars, exc, rv, fWrote, calls, path>>

\* lockAfterRender() of the pair
PairLock ==
    /\ stack # <<>>
    /\ Top.op = "pair"
    /\ Top.pc = "unlocked"
    /\ isObserving' = LockAfterRender(isObserving, nodeRef, shouldRevert)
    /\ stack' = WithTop(stack, [Top EXCEPT !.pc = "done"])
    /\ UNCHANGED <<tree, preTree, pending, queue, shouldRevert, nodeRef, hasObserver,
                   regVars, exc, rv, fWrote, calls, path>>

PairReturn ==
    /\ stack # <<>>
    /\ Top.op = "pair"
    /\ Top.pc = "done"
    /\ stack' = Popped
    /\ UNCHANGED <<tree, pending, lockVars, regVars, exc, rv>>
    /\ History(tree', pending', stack', fWrote, calls)

\* a commit with the prop revert begins: the cleanup of the previous layout effect of
\* useRevertMutations runs (return state.unlockForRender)
CommitCleanup ==
    /\ Idle
    /\ UnlockForRender
    /\ \E revert \in BOOLEAN :
          stack' = <<[Frame0 EXCEPT !.op = "commit", !.pc = "effects", !.lock = revert]>>
    /\ UNCHANGED <<tree, shouldRevert, nodeRef, hasObserver, regVars, exc, rv>>
    /\ History(tree', pending', stack', fWrote, calls)

\* the layout effect of a child component (useUnlockForRender): locker.lockAfterRender(),
\* before the effect of useRevertMutations has stored the new prop
ChildLayoutEffect ==
    /\ stack # <<>>
    /\ Top.op = "commit"
    /\ Top.pc = "effects"
    /\ isObserving' = LockAfterRender(isObserving, nodeRef, shouldRevert)
    /\ stack' = WithTop(stack, [Top EXCEPT !.pc = "root"])
    /\ UNCHANGED <<tree, pending, queue, shouldRevert, nodeRef, hasObserver, regVars, exc, rv>>
    /\ History(tree', pending', stack', fWrote, calls)

\* the layout effect of useRevertMutations in the commit:
\* shouldRevert.current = revert; state.lockAfterRender()
RootLayoutEffect ==
    /\ stack # <<>>
    /\ Top.op = "commit"
    /\ shouldRevert' = Top.lock
    /\ isObserving' = LockAfterRender(isObserving, nodeRef, Top.lock)
    /\ stack' = Popped
    /\ UNCHANGED <<tree, pending, queue, nodeRef, hasObserver, regVars, exc, rv>>
    /\ History(tree', pending', stack', fWrote, calls)

NextRender ==
    \/ NativeChange
    \/ OpenScope \/ CloseScope
    \/ PairUnlock \/ PairLock \/ PairReturn
    \/ CommitCleanup \/ ChildLayoutEffect \/ RootLayoutEffect

SpecRender == InitRender /\ [][NextRender]_vars

\* C11: while a render scope is open, the observer is not attached: closing an inner
\* scope does not lock again under an outer scope that is still open.
C11_NestedRenderScopes == Frames("scope") # {} => ~Attached

\* C12: with an observer, from a lock that is observing, or inside an open render
\* scope, or disabled: after unlockForRender() followed at once by lockAfterRender(),
\* the observing flag and the tree are what they were before the two calls.
C12_IdempotentLockCycling ==
    \A i \in Frames("pair") :
        (/\ stack[i].pc = "done"
         /\ hasObserver
         /\ (stack[i].lock \/ i > 1 \/ ~shouldRevert))
        => (isObserving = stack[i].lock /\ SameTree(tree, preTree))

\* C19: between tasks, when the revert flag is false the observer is not attached.
C19_DisabledNeverObserves == (stack = <<>> /\ ~shouldRevert) => ~Attached

-----------------------------------------------------------------------------
(* SpecRegistry: the registry alone. Components register and unregister with any
   node, or with none yet, and findAncestorPath is called on the result. *)

RegIds == Ids \cup {"leaf"}

InitRegistry ==
    /\ tree \in InitTrees
    /\ preTree = tree
    /\ pending = <<>>
    /\ RestIdle
    /\ rv = "idle"

\* registry.register(id, node, handler); useMutations registers before its ref is set
RegistryRegister ==
    /\ \E id \in RegIds, n \in Nodes \cup {Undefined} :
          /\ idToNode' = RegisterId(idToNode, id, n)
          /\ nodeToHandler' = RegisterHandler(idToNode, nodeToHandler, id, n)
    /\ path' = NoCall
    /\ UNCHANGED <<tree, preTree, pending, lockVars, depthFirst, stack, exc, fWrote, calls, rv>>

\* the function register returned: unregister(id)
RegistryUnregister ==
    /\ \E id \in DOMAIN idToNode :
          /\ idToNode' = UnregisterId(idToNode, id)
          /\ nodeToHandler' = UnregisterHandler(idToNode, nodeToHandler, id)
    /\ path' = NoCall
    /\ UNCHANGED <<tree, preTree, pending, lockVars, depthFirst, stack, exc, fWrote, calls, rv>>

\* registry.findAncestorPath(target)
RegistryFindAncestorPath ==
    /\ \E target \in Nodes :
          LET r == FindAncestorPath(tree, nodeToHandler, target)
          IN path' = [target |-> target, threw |-> r.threw, out |-> r.out]
    /\ UNCHANGED <<tree, preTree, pending, lockVars, regVars, stack, exc, fWrote, calls, rv>>

NextRegistry == RegistryRegister \/ RegistryUnregister \/ RegistryFindAncestorPath

SpecRegistry == InitRegistry /\ [][NextRegistry]_vars

RegisteredNodes == {nodeToHandler[i].node : i \in DOMAIN nodeToHandler}

\* C18: findAncestorPath(target) returns exactly the registered nodes that are target or
\* contain it, each once, ordered from the closest to target to the farthest, for every
\* registration set and target
C18_FindAncestorPath ==
    path.target # Null =>
        /\ ~path.threw
        /\ Range(path.out) = {n \in RegisteredNodes : Contains(tree, n, path.target)}
        /\ \A i, j \in DOMAIN path.out :
              i < j => path.out[i] # path.out[j] /\ Contains(tree, path.out[j], path.out[i])

\* C20: after any register and unregister calls, every id that is registered has its own
\* handler stored for its node
C20_RegistryFrame ==
    \A id \in DOMAIN idToNode :
        \E i \in DOMAIN nodeToHandler : nodeToHandler[i] = Entry(idToNode[id], id)

-----------------------------------------------------------------------------
(* SpecSnapshot: the snapshot of the parents. A batch of child-list changes is
   recorded on a guarded tree, then handleAllMutations builds the RevertedTree of it. *)

\* records in the batch the snapshot is built from
MaxMoves == 4

\* parent.appendChild(n): insertBefore(n, null). The snapshot holds parents only, the
\* place among the siblings does not enter it
AppendChildChanges(t, w, movable) ==
    {c \in InsertBeforeChanges(t, w, movable) : c.recs[Len(c.recs)].nextSibling = Null}

\* moves, insertions and removals
ChildListChanges(t, w) ==
    RemoveChildChanges(t, w, Nodes \ {Root})
    \cup AppendChildChanges(t, w, Nodes \ {Root}) \cup ReplaceChildrenChanges(t, w)
    \cup ReplaceChildChanges(t, w)

\* one move, insertion or removal in the observed tree, recorded by the observer
RecordChildList ==
    /\ stack = <<>>
    /\ Len(pending) < MaxMoves
    /\ \E c \in ChildListChanges(tree, Watched(tree, Root, pending)) :
          /\ Len(pending) + Len(c.recs) <= MaxMoves
          /\ tree' = c.t
          /\ pending' = Enqueue(pending, c.recs)
    /\ UNCHANGED <<preTree, lockVars, regVars, stack, exc, fWrote, calls, rv, path>>

\* handleAllMutations: const revertedTree = RevertedTree.forMutations(mutations)
TakeSnapshot ==
    /\ stack = <<>>
    /\ pending # <<>>
    /\ stack' = <<[Frame0 EXCEPT !.op = "snapshot", !.batch = pending,
                                   !.ov = ForMutations(pending)]>>
    /\ UNCHANGED <<tree, preTree, pending, lockVars, regVars, exc, fWrote, calls, rv, path>>

NextSnapshot == RecordChildList \/ TakeSnapshot

SpecSnapshot == InitRevert /\ [][NextSnapshot]_vars

\* the loop while ((parent = parent.parentNode)) ends: from n the chain of reverted
\* parents reaches no parent within fuel steps
RECURSIVE ChainEnds(_, _, _, _)
ChainEnds(ov, t, n, fuel) ==
    IF n = Null THEN TRUE
    ELSE IF fuel = 0 THEN FALSE
    ELSE ChainEnds(ov, t, RevertedParent(ov, t, n), fuel - 1)

RecordsRemoving(batch, n) == {i \in DOMAIN batch : n \in Range(batch[i].removed)}
RecordsAdding(batch, n) == {i \in DOMAIN batch : n \in Range(batch[i].added)}

\* C21: for every batch of moves, insertions and removals and every node that was in
\* the guarded subtree before the batch, the parent the snapshot reports is the node's
\* parent before the batch, and the walk up the reported parents ends
C21_SnapshotParents ==
    \A i \in Frames("snapshot") :
        \A n \in Subtree(preTree, Root) :
            /\ RevertedParent(stack[i].ov, tree, n) = ParentOf(preTree, n)
            /\ ChainEnds(stack[i].ov, tree, n, Cardinality(Nodes) + 1)

\* a snapshot of a batch in which a node of the tree was removed twice and inserted
\* twice, and now has another parent than before the batch
C21_Witness ==
    \E i \in Frames("snapshot") :
        \E n \in Subtree(preTree, Root) :
            /\ Cardinality(RecordsRemoving(stack[i].batch, n)) >= 2
            /\ Cardinality(RecordsAdding(stack[i].batch, n)) >= 2
            /\ ParentOf(tree, n) # ParentOf(preTree, n)
            /\ RevertedParent(stack[i].ov, tree, n) = ParentOf(preTree, n)

====
